---------------------------- MODULE Spec2Model ----------------------------
(***************************************************************************)
(* Model of the self-consistency evaluator (self_consistency.py) and the   *)
(* accuracy reporter (accuracy.py).                                        *)
(*                                                                         *)
(* A response text is a sequence of one-character strings.  A Python float *)
(* obtained by float(token) from a short decimal token is represented by   *)
(* its normalised decimal <<m, f>> (the value m / 10^f, m not a multiple   *)
(* of 10 unless f = 0): float() maps equal decimals to the same binary64   *)
(* value and different decimals of at most 15 significant digits to        *)
(* different binary64 values, so == and hash() on the floats agree with    *)
(* equality of the normalised decimals.  None is the empty tuple.  Where   *)
(* the code does arithmetic on the floats (abs(a - c) < 0.1) the binary64  *)
(* rounding error of each decimal is computed exactly (RoundErr).          *)
(***************************************************************************)
EXTENDS Integers, Sequences, FiniteSets, TLC

(* ------------------------------ bounds -------------------------------- *)

\* How many of the entries of PROBLEMS a modelled run iterates over.
MaxProblems == 2

\* How many sampled requests evaluate_problem makes (range(10) in the source).
MaxSamples == 3

\* Longest response text enumerated for extract_number.
MaxLen == 5

(* ---------------------------- small helpers --------------------------- *)

None == <<>>

Abs(x) == IF x < 0 THEN -x ELSE x

Sgn(x) == IF x < 0 THEN -1 ELSE IF x > 0 THEN 1 ELSE 0

Min(a, b) == IF a < b THEN a ELSE b

RECURSIVE Pow(_, _)
Pow(b, n) == IF n = 0 THEN 1 ELSE b * Pow(b, n - 1)

RECURSIVE PowMod(_, _, _)
PowMod(b, n, d) == IF n = 0 THEN 1 % d ELSE (b * PowMod(b, n - 1, d)) % d

(* --------------------------- extract_number --------------------------- *)

\* \d of the pattern, on the ASCII texts modelled here.
Digits == {"0", "1", "2", "3", "4", "5", "6", "7", "8", "9"}

DigitVal(c) ==
    CASE c = "0" -> 0 [] c = "1" -> 1 [] c = "2" -> 2 [] c = "3" -> 3
      [] c = "4" -> 4 [] c = "5" -> 5 [] c = "6" -> 6 [] c = "7" -> 7
      [] c = "8" -> 8 [] c = "9" -> 9

\* \d+ is greedy: the first position at or after i that holds no digit.
RECURSIVE DigitsEnd(_, _)
DigitsEnd(text, i) ==
    IF i <= Len(text) /\ text[i] \in Digits THEN DigitsEnd(text, i + 1) ELSE i

\* re.findall(r'\d+(?:\.\d+)?', text) scanning from position i: the
\* non-overlapping matches, leftmost first, each as long as it can be.
RECURSIVE FindAllFrom(_, _)
FindAllFrom(text, i) ==
    IF i > Len(text) THEN <<>>
    ELSE IF text[i] \notin Digits THEN FindAllFrom(text, i + 1)
    ELSE LET j == DigitsEnd(text, i)
             e == IF j + 1 <= Len(text) /\ text[j] = "." /\ text[j + 1] \in Digits
                  THEN DigitsEnd(text, j + 1)
                  ELSE j
         IN  <<SubSeq(text, i, e - 1)>> \o FindAllFrom(text, e)

FindAll(text) == FindAllFrom(text, 1)

\* The digits of a token read as one integer, the point skipped.
RECURSIVE DigitsValue(_)
DigitsValue(tok) ==
    IF tok = <<>> THEN 0
    ELSE LET c    == tok[Len(tok)]
             rest == SubSeq(tok, 1, Len(tok) - 1)
         IN  IF c = "." THEN DigitsValue(rest)
             ELSE 10 * DigitsValue(rest) + DigitVal(c)

\* Number of digits after the point of a token (0 without a point).
FracLen(tok) ==
    IF \E p \in 1..Len(tok) : tok[p] = "."
    THEN Len(tok) - (CHOOSE p \in 1..Len(tok) : tok[p] = ".")
    ELSE 0

\* The normalised decimal: trailing zeros of the fraction carry no value.
RECURSIVE Normalise(_, _)
Normalise(m, f) ==
    IF f > 0 /\ m % 10 = 0 THEN Normalise(m \div 10, f - 1) ELSE <<m, f>>

\* float(token) for a token the pattern matched.
ParseFloat(tok) == Normalise(DigitsValue(tok), FracLen(tok))

\* A plausible slip: the first number of the response instead of the last.
extract_number_first(text) ==
    LET numbers == FindAll(text)
    IN  IF numbers # <<>> THEN ParseFloat(numbers[1]) ELSE None

extract_number(text) ==
    LET numbers == FindAll(text)
    IN  IF numbers # <<>> THEN ParseFloat(numbers[Len(numbers)]) ELSE None

(* ------------------------- binary64 arithmetic ------------------------ *)

\* A float v = <<m, f>> with f <= 3 as an integer number of thousandths.
Milli(v) == v[1] * Pow(10, 3 - v[2])

\* floor(log2(n / 1000)) for n >= 63 (thousandths), i.e. the binary
\* exponent of the value; -4 is the exponent of 0.0625 <= x < 0.125.
RECURSIVE ExpFrom(_, _)
ExpFrom(n, e) == IF 1000 * Pow(2, e + 5) <= n * 16 THEN ExpFrom(n, e + 1) ELSE e

Exponent(n) == ExpFrom(n, -4)

\* fl(n/1000) - n/1000 in units of 2^-56 / 1000, where fl rounds to the
\* nearest binary64 value: with k = 52 - Exponent(n) the value is n * 2^k / 1000
\* units in the last place, r is the remainder of that division (never
\* exactly half, as 8 divides 2^k and not 500), and one unit in the last place
\* is 2^(Exponent(n) + 4) * 2^-56.  Defined for n = 0 and n >= 63.
RoundErr(n) ==
    IF n = 0 THEN 0
    ELSE LET e == Exponent(n)
             r == ((n % 1000) * PowMod(2, 52 - e, 1000)) % 1000
             s == IF r < 500 THEN -r ELSE 1000 - r
         IN  s * Pow(2, e + 4)

\* A plausible slip: the abs() forgotten, so every answer below the true one
\* passes.
is_close_no_abs(a, c) ==
    LET dn == Milli(a) - Milli(c)
        de == RoundErr(Milli(a)) - RoundErr(Milli(c))
    IN  dn < 100 \/ (dn = 100 /\ de < RoundErr(100))

\* abs(a - c) < 0.1 on binary64 values.  The two values differ by
\* dn/1000 + de units; the subtraction is exact whenever the decimals differ
\* by exactly 0.1 and both values are 0 or at least 0.0625, and otherwise its
\* rounding cannot cross the threshold.  The literal 0.1 is itself rounded:
\* it is 100/1000 + RoundErr(100) units.
is_close(a, c) ==
    LET dn == Milli(a) - Milli(c)
        de == RoundErr(Milli(a)) - RoundErr(Milli(c))
    IN  Abs(dn) < 100 \/ (Abs(dn) = 100 /\ Sgn(dn) * de < RoundErr(100))

\* bool(x) of an Optional[float]: None and 0.0 are both false.
Truthy(x) == x # None /\ x[1] # 0


(* ------------------------------ majority ------------------------------ *)

\* Counter(answers) as the list of <<value, count>> pairs in the order the
\* values were first inserted (a dict keeps insertion order).
RECURSIVE CounterOf(_)
CounterOf(xs) ==
    IF xs = <<>> THEN <<>>
    ELSE LET c == CounterOf(SubSeq(xs, 1, Len(xs) - 1))
             x == xs[Len(xs)]
         IN  IF \E p \in 1..Len(c) : c[p][1] = x
             THEN [p \in 1..Len(c) |->
                     IF c[p][1] = x THEN <<x, c[p][2] + 1>> ELSE c[p]]
             ELSE Append(c, <<x, 1>>)

\* A plausible slip: a later value replaces the best one on an equal count.
RECURSIVE MaxByCountLast(_, _, _)
MaxByCountLast(c, p, best) ==
    IF p > Len(c) THEN best
    ELSE MaxByCountLast(c, p + 1, IF c[p][2] >= best[2] THEN c[p] ELSE best)

\* max(items, key=count): the first item holding the largest count, which is
\* what most_common(1) returns (heapq.nlargest(1, ...) is max()).
RECURSIVE MaxByCount(_, _, _)
MaxByCount(c, p, best) ==
    IF p > Len(c) THEN best
    ELSE MaxByCount(c, p + 1, IF c[p][2] > best[2] THEN c[p] ELSE best)

most_common_last(answers) ==
    LET c == CounterOf(answers) IN MaxByCountLast(c, 2, c[1])[1]

\* Counter(answers).most_common(1)[0][0], for a non-empty list.
most_common(answers) ==
    LET c == CounterOf(answers) IN MaxByCount(c, 2, c[1])[1]

(* ------------------------------ the data ------------------------------ *)

\* PROBLEMS: the text is stood for by its position in the list, the answer
\* is the number of the source.
PROBLEMS ==
    << [problem |-> 1,  answer |-> <<1100, 0>>],
       [problem |-> 2,  answer |-> <<60, 0>>],
       [problem |-> 3,  answer |-> <<420, 0>>],
       [problem |-> 4,  answer |-> <<21, 0>>],
       [problem |-> 5,  answer |-> <<108, 0>>],
       [problem |-> 6,  answer |-> <<97, 0>>],
       [problem |-> 7,  answer |-> <<636, 1>>],
       [problem |-> 8,  answer |-> <<343, 2>>],
       [problem |-> 9,  answer |-> <<14, 0>>],
       [problem |-> 10, answer |-> <<30, 0>>] >>

\* The entries a modelled run of main() iterates over.
NumProblems == Min(MaxProblems, Len(PROBLEMS))

\* The number of sampled requests per problem.
NumSamples == MaxSamples

\* The temperatures of the two kinds of request, in tenths.
DetTemperature == 0

SampleTemperature == 11

\* Responses the service gives in the modelled runs of main() to the
\* problem at position p of PROBLEMS: a text without a number, or a text
\* whose last number is the true answer.
NoIdeaText == <<"n", "o", " ", "i", "d", "e", "a">>

AnswerTexts ==
    << <<"=", " ", "1", "1", "0", "0">>,
       <<"$", "6", "0", " ", "l", "e", "f", "t">>,
       <<"7", " ", "h", ":", " ", "4", "2", "0">>,
       <<"1", "2", "+", "9", "=", "2", "1">>,
       <<"1", "0", "8", " ", "c", "m">>,
       <<"9", "7">>,
       <<"$", "6", "3", ".", "6", "0">>,
       <<"3", ".", "4", "3", " ", "h">>,
       <<"1", "4">>,
       <<"3", "0", "%">> >>

MainResponses(p) == {NoIdeaText, AnswerTexts[p]}

\* Problems handed to evaluate_problem on its own: two entries of PROBLEMS
\* and one Problem whose true answer is 0.
EvalProblems ==
    { PROBLEMS[7], PROBLEMS[9], [problem |-> 0, answer |-> <<0, 0>>] }

\* Responses the service gives to evaluate_problem on its own.
EvalResponses ==
    { NoIdeaText,
      <<"i", "s", " ", "0">>,
      <<"1", "4">>,
      <<"1", "4", ".", "1", "0">>,
      <<"1", "5", " ", "o", "r", " ", "1", "5", ".", "0">>,
      <<"$", "6", "3", ".", "5">>,
      <<"7", "5", " ", "-", ">", " ", "6", "3", ".", "6", "5", ".">> }

(* ------------------------------ the file ------------------------------ *)

NoFile == <<"absent">>

\* problems.json just opened for writing: zero bytes.
Truncated == <<"empty">>

\* json.dump of one value: a bool becomes true/false, None becomes null, a
\* number its decimal text (stood for by the tagged decimal).
JsonBool(b) == IF b THEN "true" ELSE "false"

JsonNumber(x) == IF x = None THEN <<"null">> ELSE <<"num", x[1], x[2]>>

JsonList(xs) == [p \in 1..Len(xs) |-> JsonNumber(xs[p])]

JsonObject(r) ==
    [problem               |-> r.problem,
     correct_answer        |-> JsonNumber(r.correct_answer),
     deterministic_answer  |-> JsonNumber(r.deterministic_answer),
     deterministic_correct |-> JsonBool(r.deterministic_correct),
     majority_answer       |-> JsonNumber(r.majority_answer),
     majority_correct      |-> JsonBool(r.majority_correct),
     all_answers           |-> JsonList(r.all_answers)]

\* json.dump(results, f): the content of the file once written.
Dump(rs) == <<"json", [p \in 1..Len(rs) |-> JsonObject(rs[p])]>>

\* json.load of one value.
LoadBool(j) == j = "true"

LoadNumber(j) == IF j = <<"null">> THEN None ELSE <<j[2], j[3]>>

LoadList(js) == [p \in 1..Len(js) |-> LoadNumber(js[p])]

LoadObject(j) ==
    [problem               |-> j.problem,
     correct_answer        |-> LoadNumber(j.correct_answer),
     deterministic_answer  |-> LoadNumber(j.deterministic_answer),
     deterministic_correct |-> LoadBool(j.deterministic_correct),
     majority_answer       |-> LoadNumber(j.majority_answer),
     majority_correct      |-> LoadBool(j.majority_correct),
     all_answers           |-> LoadList(j.all_answers)]

\* json.load(f) of a written file.
Load(file) == [p \in 1..Len(file[2]) |-> LoadObject(file[2][p])]

\* What an earlier run left in problems.json: results in which no answer
\* was extracted.
OldResults ==
    [p \in 1..NumProblems |->
        [problem               |-> PROBLEMS[p].problem,
         correct_answer        |-> PROBLEMS[p].answer,
         deterministic_answer  |-> None,
         deterministic_correct |-> FALSE,
         majority_answer       |-> None,
         majority_correct      |-> FALSE,
         all_answers           |-> <<>>]]

\* sum(1 for r in results if r[...]) for the two flags.
RECURSIVE CountDet(_)
CountDet(rs) ==
    IF rs = <<>> THEN 0
    ELSE CountDet(SubSeq(rs, 1, Len(rs) - 1))
         + (IF rs[Len(rs)].deterministic_correct THEN 1 ELSE 0)

RECURSIVE CountMaj(_)
CountMaj(rs) ==
    IF rs = <<>> THEN 0
    ELSE CountMaj(SubSeq(rs, 1, Len(rs) - 1))
         + (IF rs[Len(rs)].majority_correct THEN 1 ELSE 0)

(* ------------------------------ the state ----------------------------- *)

VARIABLES
    key,            \* OPENAI_API_KEY after load_dotenv(): "unset", "empty", "set"
    pc,             \* where the evaluator process is
    message,        \* main() printed "Set OPENAI_API_KEY environment variable"
    i,              \* entries of PROBLEMS main() has finished
    problem_data,   \* the argument of evaluate_problem
    det_answer,     \* evaluate_problem's locals
    det_correct,
    k,              \* sampled requests finished in the loop of line 68
    response,       \* the last sampled response (line 69)
    answers,
    result,         \* evaluate_problem's return value, <<>> before it returns
    results,        \* main()'s locals
    det_score,
    maj_score,
    issued,         \* completion requests sent, as <<problem, temperature>>
    returned,       \* completion requests that returned a response
    raised,         \* a completion request raised
    file,           \* problems.json
    png,            \* accuracy.png exists
    rep,            \* the reporter process: how its last run ended, its locals
    text,           \* the argument of extract_number called on its own
    out             \* and its return value

vars == <<key, pc, message, i, problem_data, det_answer, det_correct, k,
          response, answers, result, results, det_score, maj_score, issued,
          returned, raised, file, png, rep, text, out>>

evalLocals == <<det_answer, det_correct, k, response, answers, result>>

mainLocals == <<i, results, det_score, maj_score>>

reporterVars == <<png, rep>>

extractVars == <<text, out>>

RepIdle ==
    [status |-> "idle", results |-> <<>>, det_correct |-> 0, maj_correct |-> 0,
     total |-> 0]

NoProblem == [problem |-> 0, answer |-> <<0, 0>>]

\* Everything but the environment, before the script starts.
Fresh ==
    /\ message = FALSE
    /\ i = 0
    /\ problem_data = NoProblem
    /\ det_answer = None
    /\ det_correct = FALSE
    /\ k = 0
    /\ response = <<>>
    /\ answers = <<>>
    /\ result = <<>>
    /\ results = <<>>
    /\ det_score = 0
    /\ maj_score = 0
    /\ issued = <<>>
    /\ returned = 0
    /\ raised = FALSE
    /\ png = FALSE
    /\ rep = RepIdle
    /\ text = <<>>
    /\ out = None

\* python self_consistency.py is started: the credential is unset, set to
\* the empty string or set; problems.json is absent or left by an earlier
\* run.
Init ==
    /\ key \in {"unset", "empty", "set"}
    /\ file \in {NoFile, Dump(OldResults)}
    /\ pc = "load"
    /\ Fresh

(* ---------------------------- the evaluator --------------------------- *)

\* Lines 15-18, run when the module is loaded: OpenAI(api_key=None) raises
\* OpenAIError when the variable is not set either (the constructor falls
\* back on os.environ and refuses None); an empty string is accepted.
LoadModule ==
    /\ pc = "load"
    /\ pc' = IF key = "unset" THEN "crashed" ELSE "main"
    /\ UNCHANGED <<key, message, problem_data, file, issued, returned, raised>>
    /\ UNCHANGED <<evalLocals, mainLocals, reporterVars, extractVars>>

\* main(), lines 96-102.
MainStart ==
    /\ pc = "main"
    /\ IF key # "set"
       THEN /\ message' = TRUE
            /\ pc' = "done"
            /\ UNCHANGED mainLocals
       ELSE /\ results' = <<>>
            /\ det_score' = 0
            /\ maj_score' = 0
            /\ i' = 0
            /\ pc' = "loop"
            /\ UNCHANGED message
    /\ UNCHANGED <<key, problem_data, file, issued, returned, raised>>
    /\ UNCHANGED <<evalLocals, reporterVars, extractVars>>

\* The for of line 104 takes the next entry and calls evaluate_problem
\* (lines 108, 53-57), or is over.
LoopNext ==
    /\ pc = "loop"
    /\ IF i < NumProblems
       THEN /\ problem_data' = PROBLEMS[i + 1]
            /\ pc' = "det"
       ELSE /\ pc' = "save"
            /\ UNCHANGED problem_data
    /\ UNCHANGED <<key, message, file, issued, returned, raised>>
    /\ UNCHANGED <<evalLocals, mainLocals, reporterVars, extractVars>>

\* get_response(problem, temperature=0) sends its request (lines 60, 36-42).
DetIssue ==
    /\ pc = "det"
    /\ issued' = Append(issued, <<problem_data.problem, DetTemperature>>)
    /\ pc' = "det_wait"
    /\ UNCHANGED <<key, message, problem_data, file, returned, raised>>
    /\ UNCHANGED <<evalLocals, mainLocals, reporterVars, extractVars>>

\* The request returns a response (line 43); lines 61-67.
DetReturn(Responses) ==
    /\ pc = "det_wait"
    /\ \E det_response \in Responses :
          LET a == extract_number(det_response)
          IN  /\ det_answer' = a
              /\ det_correct' =
                    IF Truthy(a) THEN is_close(a, problem_data.answer) ELSE FALSE
    /\ answers' = <<>>
    /\ k' = 0
    /\ returned' = returned + 1
    /\ pc' = "sample"
    /\ UNCHANGED <<key, message, problem_data, file, issued, raised>>
    /\ UNCHANGED <<response, result, mainLocals, reporterVars, extractVars>>

\* The request raises (a transport or service error, or a response without
\* a text): nothing catches it, the process ends with a traceback.
DetRaise ==
    /\ pc = "det_wait"
    /\ raised' = TRUE
    /\ pc' = "crashed"
    /\ UNCHANGED <<key, message, problem_data, file, issued, returned>>
    /\ UNCHANGED <<evalLocals, mainLocals, reporterVars, extractVars>>

\* A plausible slip: the sampled request sent with the default temperature.
SampleIssueDefaultTemperature ==
    /\ pc = "sample"
    /\ k < NumSamples
    /\ issued' = Append(issued, <<problem_data.problem, DetTemperature>>)
    /\ pc' = "sample_wait"
    /\ UNCHANGED <<key, message, problem_data, file, returned, raised>>
    /\ UNCHANGED <<evalLocals, mainLocals, reporterVars, extractVars>>

\* One turn of the loop of line 68 sends its request (line 69).
SampleIssue ==
    /\ pc = "sample"
    /\ k < NumSamples
    /\ issued' = Append(issued, <<problem_data.problem, SampleTemperature>>)
    /\ pc' = "sample_wait"
    /\ UNCHANGED <<key, message, problem_data, file, returned, raised>>
    /\ UNCHANGED <<evalLocals, mainLocals, reporterVars, extractVars>>

\* The request returns; lines 70-72.
SampleReturn(Responses) ==
    /\ pc = "sample_wait"
    /\ \E r \in Responses :
          LET answer == extract_number(r)
          IN  /\ response' = r
              /\ answers' = IF Truthy(answer) THEN Append(answers, answer)
                            ELSE answers
    /\ k' = k + 1
    /\ returned' = returned + 1
    /\ pc' = "sample"
    /\ UNCHANGED <<key, message, problem_data, file, issued, raised>>
    /\ UNCHANGED <<det_answer, det_correct, result>>
    /\ UNCHANGED <<mainLocals, reporterVars, extractVars>>

\* A plausible change: the failed request is caught and sent again.
SampleRaiseRetry ==
    /\ pc = "sample_wait"
    /\ raised' = TRUE
    /\ pc' = "sample"
    /\ UNCHANGED <<key, message, problem_data, file, issued, returned>>
    /\ UNCHANGED <<evalLocals, mainLocals, reporterVars, extractVars>>

\* The request raises.
SampleRaise ==
    /\ pc = "sample_wait"
    /\ raised' = TRUE
    /\ pc' = "crashed"
    /\ UNCHANGED <<key, message, problem_data, file, issued, returned>>
    /\ UNCHANGED <<evalLocals, mainLocals, reporterVars, extractVars>>

\* Lines 74-92: the vote and the returned record.
Vote ==
    /\ pc = "sample"
    /\ k = NumSamples
    /\ LET majority_answer == IF answers # <<>> THEN most_common(answers) ELSE None
           maj_correct     == IF answers # <<>>
                              THEN is_close(majority_answer, problem_data.answer)
                              ELSE FALSE
       IN  result' = << [problem               |-> problem_data.problem,
                         correct_answer        |-> problem_data.answer,
                         deterministic_answer  |-> det_answer,
                         deterministic_correct |-> det_correct,
                         majority_answer       |-> majority_answer,
                         majority_correct      |-> maj_correct,
                         all_answers           |-> answers] >>
    /\ response' = <<>>
    /\ pc' = "ret"
    /\ UNCHANGED <<key, message, problem_data, file, issued, returned, raised>>
    /\ UNCHANGED <<det_answer, det_correct, k, answers>>
    /\ UNCHANGED <<mainLocals, reporterVars, extractVars>>

\* A plausible slip: the second counter tests the first flag.
AccumulateSameFlag ==
    /\ pc = "ret"
    /\ results' = Append(results, result[1])
    /\ det_score' = det_score + (IF result[1].deterministic_correct THEN 1 ELSE 0)
    /\ maj_score' = maj_score + (IF result[1].deterministic_correct THEN 1 ELSE 0)
    /\ i' = i + 1
    /\ result' = <<>>
    /\ pc' = "loop"
    /\ UNCHANGED <<key, message, problem_data, file, issued, returned, raised>>
    /\ UNCHANGED <<det_answer, det_correct, k, response, answers>>
    /\ UNCHANGED <<reporterVars, extractVars>>

\* main(), lines 108-114, once evaluate_problem has returned.
Accumulate ==
    /\ pc = "ret"
    /\ results' = Append(results, result[1])
    /\ det_score' = det_score + (IF result[1].deterministic_correct THEN 1 ELSE 0)
    /\ maj_score' = maj_score + (IF result[1].majority_correct THEN 1 ELSE 0)
    /\ i' = i + 1
    /\ result' = <<>>
    /\ pc' = "loop"
    /\ UNCHANGED <<key, message, problem_data, file, issued, returned, raised>>
    /\ UNCHANGED <<det_answer, det_correct, k, response, answers>>
    /\ UNCHANGED <<reporterVars, extractVars>>

\* Lines 116-125: the summary is printed and open("problems.json", "w")
\* creates or truncates the file.
SaveOpen ==
    /\ pc = "save"
    /\ file' = Truncated
    /\ pc' = "dump"
    /\ UNCHANGED <<key, message, problem_data, issued, returned, raised>>
    /\ UNCHANGED <<evalLocals, mainLocals, reporterVars, extractVars>>

\* Lines 126-127: json.dump and the close of the file.
SaveDump ==
    /\ pc = "dump"
    /\ file' = Dump(results)
    /\ pc' = "done"
    /\ UNCHANGED <<key, message, problem_data, issued, returned, raised>>
    /\ UNCHANGED <<evalLocals, mainLocals, reporterVars, extractVars>>

(* ---------------------------- the reporter ---------------------------- *)

\* A plausible slip: the missing file is not caught.
ReporterRunUncaught ==
    /\ IF file \in {NoFile, Truncated}
       THEN /\ rep' = [RepIdle EXCEPT !.status = "raised"]
            /\ UNCHANGED png
       ELSE LET rs == Load(file)
            IN  /\ rep' = [status       |-> "charted",
                           results      |-> rs,
                           det_correct  |-> CountDet(rs),
                           maj_correct  |-> CountMaj(rs),
                           total        |-> Len(rs)]
                /\ png' = TRUE
    /\ UNCHANGED <<key, pc, message, problem_data, file, issued, returned, raised>>
    /\ UNCHANGED <<evalLocals, mainLocals, extractVars>>

\* create_accuracy_chart(), a process of its own that may run at any time:
\* the file is missing (lines 14-16), is not JSON yet (json.load raises), or
\* is read, counted and charted (lines 18-50; a list without entries raises
\* ZeroDivisionError on line 25).
ReporterRun ==
    /\ IF file = NoFile
       THEN /\ rep' = [RepIdle EXCEPT !.status = "message"]
            /\ UNCHANGED png
       ELSE IF file = Truncated
       THEN /\ rep' = [RepIdle EXCEPT !.status = "raised"]
            /\ UNCHANGED png
       ELSE LET rs == Load(file)
            IN  IF Len(rs) = 0
                THEN /\ rep' = [RepIdle EXCEPT !.status = "raised", !.results = rs]
                     /\ UNCHANGED png
                ELSE /\ rep' = [status       |-> "charted",
                                results      |-> rs,
                                det_correct  |-> CountDet(rs),
                                maj_correct  |-> CountMaj(rs),
                                total        |-> Len(rs)]
                     /\ png' = TRUE
    /\ UNCHANGED <<key, pc, message, problem_data, file, issued, returned, raised>>
    /\ UNCHANGED <<evalLocals, mainLocals, extractVars>>

Next ==
    \/ LoadModule
    \/ MainStart
    \/ LoopNext
    \/ DetIssue
    \/ DetReturn(MainResponses(problem_data.problem))
    \/ DetRaise
    \/ SampleIssue
    \/ SampleReturn(MainResponses(problem_data.problem))
    \/ SampleRaise
    \/ Vote
    \/ Accumulate
    \/ SaveOpen
    \/ SaveDump
    \/ ReporterRun

Spec == Init /\ [][Next]_vars

(* ---------------------- evaluate_problem on its own ------------------- *)

\* evaluate_problem(problem_data) is called with a Problem of EvalProblems.
InitEval ==
    /\ key = "set"
    /\ file = NoFile
    /\ pc = "det"
    /\ message = FALSE
    /\ i = 0
    /\ problem_data \in EvalProblems
    /\ det_answer = None
    /\ det_correct = FALSE
    /\ k = 0
    /\ response = <<>>
    /\ answers = <<>>
    /\ result = <<>>
    /\ results = <<>>
    /\ det_score = 0
    /\ maj_score = 0
    /\ issued = <<>>
    /\ returned = 0
    /\ raised = FALSE
    /\ png = FALSE
    /\ rep = RepIdle
    /\ text = <<>>
    /\ out = None

NextEval ==
    \/ DetIssue
    \/ DetReturn(EvalResponses)
    \/ DetRaise
    \/ SampleIssue
    \/ SampleReturn(EvalResponses)
    \/ SampleRaise
    \/ Vote

SpecEval == InitEval /\ [][NextEval]_vars

(* ----------------------- extract_number on its own -------------------- *)

Alphabet == {"0", "7", ".", "x"}

\* The three documented example texts.
AreaText ==
    <<"T", "h", "e", " ", "a", "r", "e", "a", " ", "i", "s", " ", "1", "0",
      "8", " ", "s", "q", "u", "a", "r", "e", " ", "c", "m">>

PeopleText ==
    <<"1", "2", " ", "p", "e", "o", "p", "l", "e", " ", "a", "n", "d", " ",
      "3", " ", "g", "r", "o", "u", "p", "s", ",", " ", "a", "n", "s", "w",
      "e", "r", ":", " ", "4">>

NoDigitsText == <<"n", "o", " ", "d", "i", "g", "i", "t", "s">>

ExampleTexts == {AreaText, PeopleText, NoDigitsText}

Texts == UNION {[1..n -> Alphabet] : n \in 0..MaxLen} \cup ExampleTexts

InitExtract ==
    /\ key = "set"
    /\ file = NoFile
    /\ pc = "extract"
    /\ message = FALSE
    /\ i = 0
    /\ problem_data = NoProblem
    /\ det_answer = None
    /\ det_correct = FALSE
    /\ k = 0
    /\ response = <<>>
    /\ answers = <<>>
    /\ result = <<>>
    /\ results = <<>>
    /\ det_score = 0
    /\ maj_score = 0
    /\ issued = <<>>
    /\ returned = 0
    /\ raised = FALSE
    /\ png = FALSE
    /\ rep = RepIdle
    /\ text \in Texts
    /\ out = None

\* extract_number(text) is called and returns.
Extract ==
    /\ pc = "extract"
    /\ out' = extract_number(text)
    /\ pc' = "extracted"
    /\ UNCHANGED <<key, message, problem_data, file, issued, returned, raised>>
    /\ UNCHANGED <<evalLocals, mainLocals, reporterVars, text>>

NextExtract == Extract

SpecExtract == InitExtract /\ [][NextExtract]_vars

(* ------------------------------ properties ---------------------------- *)

\* |a - c| < 0.1 of the two binary64 values as real numbers, the tolerance
\* being one tenth exactly (not its binary64 rounding).
WithinTenth(a, c) ==
    LET dn == Milli(a) - Milli(c)
        de == RoundErr(Milli(a)) - RoundErr(Milli(c))
    IN  Abs(dn) < 100 \/ (Abs(dn) = 100 /\ Sgn(dn) * de < 0)

Returned == pc = "ret" /\ result # <<>>

\* C1: in every result evaluate_problem returns, deterministic_correct holds
\* only if deterministic_answer is present and differs from correct_answer by
\* strictly less than 0.1, and likewise majority_correct for majority_answer;
\* against 63.6 the answer 63.5 is not correct and 63.65 is.
C1_CorrectOnlyWithinTolerance ==
    Returned =>
        LET r == result[1]
        IN  /\ r.deterministic_correct =>
                  /\ r.deterministic_answer # None
                  /\ WithinTenth(r.deterministic_answer, r.correct_answer)
            /\ r.majority_correct =>
                  /\ r.majority_answer # None
                  /\ WithinTenth(r.majority_answer, r.correct_answer)
            /\ r.correct_answer = <<636, 1>> =>
                  /\ r.deterministic_answer = <<635, 1>> => ~r.deterministic_correct
                  /\ r.deterministic_answer = <<6365, 2>> => r.deterministic_correct
                  /\ r.majority_answer = <<635, 1>> => ~r.majority_correct
                  /\ r.majority_answer = <<6365, 2>> => r.majority_correct

\* Both flags are set in one result, one answer accepted at 0.05 from the true
\* one, and another result rejects 63.5 against 63.6.
C1_Witness ==
    /\ Returned
    /\ result[1].correct_answer = <<636, 1>>
    /\ result[1].deterministic_answer = <<6365, 2>>
    /\ result[1].deterministic_correct
    /\ result[1].majority_answer = <<635, 1>>
    /\ ~result[1].majority_correct

Occurrences(xs, v) == Cardinality({p \in 1..Len(xs) : xs[p] = v})

FirstIndex(xs, v) == CHOOSE p \in 1..Len(xs) :
                        xs[p] = v /\ \A q \in 1..(p - 1) : xs[q] # v

\* C2: majority_answer is absent exactly when no sampled answer was retained,
\* and otherwise is the retained value with the highest number of occurrences,
\* the one that appears first among those tied for it; [14,14,15,14,20] gives
\* 14.
C2_MajorityIsFirstMostFrequent ==
    /\ most_common(<< <<14, 0>>, <<14, 0>>, <<15, 0>>, <<14, 0>>, <<20, 0>> >>)
          = <<14, 0>>
    /\ Returned =>
          LET xs == result[1].all_answers
              m  == result[1].majority_answer
          IN  /\ (m = None) <=> (xs = <<>>)
              /\ xs # <<>> =>
                    /\ \E p \in 1..Len(xs) : xs[p] = m
                    /\ \A p \in 1..Len(xs) :
                          /\ Occurrences(xs, xs[p]) <= Occurrences(xs, m)
                          /\ Occurrences(xs, xs[p]) = Occurrences(xs, m)
                                => FirstIndex(xs, m) <= FirstIndex(xs, xs[p])

\* Three retained answers, all different: the first is returned.
C2_Witness ==
    /\ Returned
    /\ Len(result[1].all_answers) = 3
    /\ Cardinality({result[1].all_answers[p] : p \in 1..3}) = 3
    /\ result[1].majority_answer = result[1].all_answers[1]

\* C3: a sampled response is dropped from the vote exactly when no number was
\* found in it; every extracted value, 0 included, is appended to all_answers
\* in request order.
C3_DroppedOnlyWhenNoNumber ==
    [][(pc = "sample_wait" /\ pc' = "sample") =>
          answers' = IF extract_number(response') # None
                     THEN Append(answers, extract_number(response'))
                     ELSE answers]_vars

\* C4: deterministic_correct holds if and only if a number was extracted from
\* the deterministic response and it is within 0.1 (strictly) of the true
\* answer.
C4_DetCorrectIffWithinTolerance ==
    Returned =>
        LET r == result[1]
        IN  r.deterministic_correct <=>
               /\ r.deterministic_answer # None
               /\ WithinTenth(r.deterministic_answer, r.correct_answer)

HasDigit(t) == \E p \in 1..Len(t) : t[p] \in Digits

LastDigitPos(t) == CHOOSE p \in 1..Len(t) :
                      t[p] \in Digits /\ \A q \in (p + 1)..Len(t) : t[q] \notin Digits

\* Where the run of digits that ends at position e starts.
RECURSIVE RunStart(_, _)
RunStart(t, e) == IF e > 1 /\ t[e - 1] \in Digits THEN RunStart(t, e - 1) ELSE e

\* The runs of digits, left to right, of the longest stretch d+(.d+)* that
\* ends at position e.
RECURSIVE ChainRuns(_, _)
ChainRuns(t, e) ==
    LET b == RunStart(t, e)
    IN  IF b > 2 /\ t[b - 1] = "." /\ t[b - 2] \in Digits
        THEN Append(ChainRuns(t, b - 2), <<b, e>>)
        ELSE << <<b, e>> >>

\* The last integer-or-decimal number of a text in order of appearance, said
\* without scanning from the left: numbers pair up the runs of a stretch
\* d+(.d+)* two by two from its start, so the last number is the last run when
\* their count is odd and the last two runs when it is even.
LastNumber(t) ==
    LET runs == ChainRuns(t, LastDigitPos(t))
        n    == Len(runs)
    IN  IF n % 2 = 1 THEN SubSeq(t, runs[n][1], runs[n][2])
        ELSE SubSeq(t, runs[n - 1][1], runs[n][2])

\* v is the value of the decimal token tok: v[1] / 10^v[2] is the integer its
\* digits spell over 10^(number of digits after the point).
IsValueOf(v, tok) ==
    v # None /\ v[1] * Pow(10, FracLen(tok)) = DigitsValue(tok) * Pow(10, v[2])

\* C5: extract_number returns absent for a text without a number and otherwise
\* the value of the last number of the text in order of appearance: 108.0, 4.0
\* and absent on the three documented texts.
C5_LastNumberWins ==
    pc = "extracted" =>
        /\ ~HasDigit(text) => out = None
        /\ HasDigit(text) => IsValueOf(out, LastNumber(text))
        /\ text = AreaText => out = <<108, 0>>
        /\ text = PeopleText => out = <<4, 0>>
        /\ text = NoDigitsText => out = None

\* "7.0.7" holds the two numbers 7.0 and 7; the second is returned.
C5_Witness ==
    /\ pc = "extracted"
    /\ text = <<"7", ".", "0", ".", "7">>
    /\ Len(FindAll(text)) = 2
    /\ out = <<7, 0>>

\* C6: without the credential (unset or empty) the evaluator stops cleanly:
\* it prints the message and ends without a request, an evaluated problem or a
\* change to problems.json.
C6_CleanStopWithoutKey ==
    (key # "set" /\ pc \notin {"load", "main"}) =>
        /\ pc = "done"
        /\ message
        /\ issued = <<>>
        /\ results = <<>>
        /\ file \in {NoFile, Dump(OldResults)}

\* C7: once a completion request has raised the run is over: the request is
\* not sent again, no other request is sent, nothing more is evaluated and
\* problems.json stays as it was; the file changes only once every problem has
\* been evaluated.
C7_RaiseAbortsRun ==
    [][/\ (raised' /\ ~raised) => pc' = "crashed"
       /\ raised => /\ pc' = pc
                    /\ issued' = issued
                    /\ returned' = returned
                    /\ results' = results
                    /\ file' = file
       /\ file' # file => /\ ~raised'
                          /\ i = NumProblems
                          /\ Len(results) = NumProblems]_vars

\* A sampled request of the second problem raised: the first result is lost
\* and the earlier file is untouched.
C7_Witness ==
    /\ raised
    /\ pc = "crashed"
    /\ Len(results) = 1
    /\ k > 0
    /\ file = Dump(OldResults)

\* C8: the reporter's counts over the file the evaluator wrote equal the
\* evaluator's own counters, and its total the number of results written.
C8_ReporterCountsMatch ==
    (pc = "done" /\ key = "set" /\ rep.status = "charted"
        /\ rep.results = Load(file)) =>
        /\ rep.det_correct = det_score
        /\ rep.maj_correct = maj_score
        /\ rep.total = Len(results)

\* The reporter has read the file of a run whose two counters differ.
C8_Witness ==
    /\ pc = "done"
    /\ key = "set"
    /\ rep.status = "charted"
    /\ rep.results = Load(file)
    /\ det_score = 2
    /\ maj_score = 1

\* C9: run without problems.json, the reporter does not raise: it prints the
\* instruction and returns, and accuracy.png is not produced.
C9_MissingFileIsClean ==
    (file = NoFile /\ rep.status # "idle") =>
        /\ rep.status = "message"
        /\ ~png

C9_Witness ==
    /\ file = NoFile
    /\ rep.status = "message"
    /\ ~png

RequestsPerProblem == 1 + NumSamples

\* The n-th request of a run without failure.
ExpectedRequest(n) ==
    <<PROBLEMS[((n - 1) \div RequestsPerProblem) + 1].problem,
      IF (n - 1) % RequestsPerProblem = 0 THEN DetTemperature
      ELSE SampleTemperature>>

\* C10: while no request fails, requests go out one at a time, problem by
\* problem in the fixed order, one at temperature 0 then NumSamples at 1.1 for
\* each; a request is sent only when every earlier one has returned, and a
\* finished run has sent NumProblems * (1 + NumSamples) of them.
C10_RequestsSequential ==
    ~raised =>
        /\ Len(issued) <= NumProblems * RequestsPerProblem
        /\ \A n \in 1..Len(issued) : issued[n] = ExpectedRequest(n)
        /\ returned <= Len(issued)
        /\ Len(issued) <= returned + 1
        /\ Len(issued) = returned + 1 => pc \in {"det_wait", "sample_wait"}
        /\ (pc \in {"save", "dump", "done"} /\ key = "set") =>
               returned = NumProblems * RequestsPerProblem

C10_Witness ==
    /\ pc = "done"
    /\ key = "set"
    /\ ~raised
    /\ Len(issued) = NumProblems * RequestsPerProblem
    /\ issued[Len(issued)] = <<NumProblems, SampleTemperature>>

=============================================================================
